---- MODULE Spec2Model ----
(***************************************************************************)
(* Multisig security program (src/security/multisig).                      *)
(*                                                                         *)
(* State: the program-owned accounts (MultisigAccount records and          *)
(* Transaction records, keyed by account address) and the number of        *)
(* cross-program invocations that were carried out for each Transaction.   *)
(* One action per instruction handler of instructions/processor.rs.  Each  *)
(* handler has a result operator (XxxResult) that performs the handler's   *)
(* checks in the order of the source and yields the error of the first     *)
(* failing check, or Ok.  The handler's action is enabled when the result  *)
(* is Ok and then applies the handler's writes; a handler that returns Err *)
(* has written nothing (every check precedes the first write), so a        *)
(* rejected instruction is a step that leaves all variables unchanged.     *)
(*                                                                         *)
(* Accounts hold the record the handler stored: the handlers are modelled  *)
(* over the decoded MultisigAccount / Transaction values.  The allocated   *)
(* size of a multisig account (get_packed_len) is kept, because a later    *)
(* serialize into the account fails when the record no longer fits.        *)
(***************************************************************************)
EXTENDS Integers, Sequences, FiniteSets, TLC

\* ------------------------------------------------------------------ bounds
MaxOwners == 2
MaxClock == 1
MaxExcess == 2
MaxCountGap == 1

\* ------------------------------------------------------- program constants
PUBKEY_BYTES == 32
U8_RANGE == 256
U64_BYTES == 8

\* --------------------------------------------------------------- universes
Keys == {"A", "B"}
MultisigAddrs == {"M1", "M2"}
TxAddrs == {"T1", "T2"}
MultisigProgram == "multisig_security"
OtherProgram == "target_program"
NoAccount == [exists |-> FALSE]

Range(s) == {s[i] : i \in 1..Len(s)}

RECURSIVE SeqsUpTo(_, _)
SeqsUpTo(S, n) ==
    IF n = 0 THEN {<<>>}
    ELSE LET shorter == SeqsUpTo(S, n - 1)
         IN shorter \cup {Append(s, x) : s \in {q \in shorter : Len(q) = n - 1}, x \in S}

OwnerLists == SeqsUpTo(Keys, MaxOwners)
Thresholds == 0..(MaxOwners + 1)
ClockValues == 1..MaxClock

\* ------------------------------------------------------------ error kinds
Ok == "Ok"
MissingRequiredSignature == "MissingRequiredSignature"
InvalidOwner == "InvalidOwner"
InvalidNumberOfSigners == "InvalidNumberOfSigners"
NotEnoughSigners == "NotEnoughSigners"
DuplicateOwner == "DuplicateOwner"
OwnerNotFound == "OwnerNotFound"
OwnerAlreadySigned == "OwnerAlreadySigned"
TransactionNotReady == "TransactionNotReady"
AuthorityMismatch == "AuthorityMismatch"
InvalidTransactionData == "InvalidTransactionData"
CreateAccountFailed == "CreateAccountFailed"
InvokeFailed == "InvokeFailed"
BorshIoError == "BorshIoError"
IndexPanic == "IndexPanic"

\* ------------------------------------------------------------------ state
Active == "Active"
Executed == "Executed"
Removed == "Removed"

\* approved[t] records, for the transaction account t, the keys whose
\* CreateTransaction or ApproveTransaction on it the program has accepted.
VARIABLES multisig, transaction, dispatched, approved
vars == <<multisig, transaction, dispatched, approved>>

\* ----------------------------------------------------- transaction payloads
\* transaction_data is program_id (32 bytes) || instruction data.  A payload
\* shorter than 32 bytes carries no program id.  The instruction data is
\* either opaque to this program or the encoding of a ChangeOwners
\* instruction of this program.
OpaqueData == [variant |-> "Opaque", threshold |-> 0, owners |-> <<>>]
ChangeOwnersData(threshold, owners) ==
    [variant |-> "ChangeOwners", threshold |-> threshold, owners |-> owners]
ProposedChanges == {ChangeOwnersData(1, <<"A">>)}
ShortData == [bytes_len |-> PUBKEY_BYTES - 1, program_id |-> "none", data |-> OpaqueData]
FullData(program, data) ==
    [bytes_len |-> PUBKEY_BYTES + 1 + Len(data.owners) * PUBKEY_BYTES,
     program_id |-> program, data |-> data]
TransactionDatas ==
    {ShortData, FullData(OtherProgram, OpaqueData)}
        \cup {FullData(p, d) : p \in {MultisigProgram, OtherProgram}, d \in ProposedChanges}

\* --------------------------------------------------------- state/mod.rs
MultisigAccount(threshold, owners, count, data_len) ==
    [exists |-> TRUE, data_len |-> data_len, is_initialized |-> TRUE,
     threshold |-> threshold, owners |-> owners, transaction_count |-> count]

\* Bytes the borsh encoding of a MultisigAccount takes.
MultisigSerializedLen(owners) == 1 + 1 + 4 + (Len(owners) * PUBKEY_BYTES) + 8

\* MultisigAccount::get_packed_len: the size the account is allocated with.
MultisigPackedLen(owners) == 1 + 1 + 4 + (Len(owners) * PUBKEY_BYTES) + 8 + 32

Transaction(m, status, data, signers, creator, executed_at) ==
    [exists |-> TRUE, multisig |-> m, status |-> status, transaction_data |-> data,
     signers |-> signers, creator |-> creator, executed_at |-> executed_at]

\* ------------------------------------------------------------- helpers
\* usize -> u8 cast
AsU8(n) == n % U8_RANGE

\* A u64 is kept as the 8 little-endian bytes borsh stores, so that it has
\* its full range: U64(n) are the bytes of a small number n.
RECURSIVE LeBytes(_, _)
LeBytes(n, k) ==
    IF k = 0 THEN <<>> ELSE <<n % U8_RANGE>> \o LeBytes(n \div U8_RANGE, k - 1)

U64(n) == LeBytes(n, U64_BYTES)

\* u64::MAX
IsU64Max(bytes) == \A i \in 1..Len(bytes) : bytes[i] = U8_RANGE - 1

\* x + 1 on a u64 without overflow checks: the carry runs up the bytes and
\* u64::MAX becomes 0.
RECURSIVE CarryInto(_, _)
CarryInto(bytes, i) ==
    IF i > Len(bytes) THEN bytes
    ELSE IF bytes[i] = U8_RANGE - 1 THEN CarryInto([bytes EXCEPT ![i] = 0], i + 1)
    ELSE [bytes EXCEPT ![i] = @ + 1]

WrappingIncrement(bytes) == CarryInto(bytes, 1)

\* ------------------------------------------------- borsh encoding of records
\* A record is stored as the bytes borsh writes: bool and u8 as one byte, u64
\* and the u32 length of a Vec little-endian, a Pubkey as its 32 bytes, an
\* enum as the index of its variant.  The keys of the model stand for
\* Pubkeys; each is given 32 bytes of its own.
Pubkeys == {"A", "B", "C", "M1", "M2", MultisigProgram, OtherProgram}

KeyCode(key) ==
    CASE key = "A" -> 1 [] key = "B" -> 2 [] key = "C" -> 3
      [] key = "M1" -> 4 [] key = "M2" -> 5
      [] key = MultisigProgram -> 6 [] key = OtherProgram -> 7

KeyBytes(key) == [i \in 1..PUBKEY_BYTES |-> KeyCode(key)]

Zeros(n) == [i \in 1..n |-> 0]

RECURSIVE Concat(_)
Concat(seqs) == IF seqs = <<>> THEN <<>> ELSE Head(seqs) \o Concat(Tail(seqs))

\* bytes[from .. from + n - 1]
Slice(bytes, from, n) == [i \in 1..n |-> bytes[from + i - 1]]

RECURSIVE FromLeBytes(_)
FromLeBytes(bytes) ==
    IF bytes = <<>> THEN 0 ELSE Head(bytes) + U8_RANGE * FromLeBytes(Tail(bytes))

StatusIndex(status) ==
    CASE status = "Active" -> 0 [] status = "Executed" -> 1 [] status = "Removed" -> 2

\* The bytes of a transaction_data value: the target program's key followed
\* by the instruction data (a tag and the keys it carries), or 31 bytes that
\* hold no key.
PayloadBytes(data) ==
    IF data.bytes_len < PUBKEY_BYTES THEN Zeros(data.bytes_len)
    ELSE KeyBytes(data.program_id)
             \o <<IF data.data.variant = "ChangeOwners" THEN 5 ELSE 0>>
             \o Concat([i \in 1..Len(data.data.owners) |-> KeyBytes(data.data.owners[i])])

\* BorshSerialize for MultisigAccount and Transaction
EncodeMultisig(account) ==
    <<IF account.is_initialized THEN 1 ELSE 0, account.threshold>>
        \o LeBytes(Len(account.owners), 4)
        \o Concat([i \in 1..Len(account.owners) |-> KeyBytes(account.owners[i])])
        \o account.transaction_count

EncodeTransaction(tx) ==
    KeyBytes(tx.multisig)
        \o <<StatusIndex(tx.status)>>
        \o LeBytes(Len(PayloadBytes(tx.transaction_data)), 4)
        \o PayloadBytes(tx.transaction_data)
        \o LeBytes(Len(tx.signers), 4)
        \o [i \in 1..Len(tx.signers) |-> IF tx.signers[i] THEN 1 ELSE 0]
        \o KeyBytes(tx.creator)
        \o U64(tx.executed_at)

\* Transaction::get_packed_len
TransactionPackedLen(tx) ==
    32 + 1 + 4 + Len(PayloadBytes(tx.transaction_data)) + 4 + Len(tx.signers) + 32 + 8 + 32

\* The data of an account: the bytes serialize() wrote at the front of the
\* allocation; the rest of the allocation is not written (zero when the
\* account is created).
StoredMultisigBytes(account) ==
    EncodeMultisig(account) \o Zeros(account.data_len - Len(EncodeMultisig(account)))

StoredTransactionBytes(tx) ==
    EncodeTransaction(tx) \o Zeros(TransactionPackedLen(tx) - Len(EncodeTransaction(tx)))

\* BorshDeserialize::try_from_slice: the fields are read front to back; the
\* call fails when the bytes run out, when a bool or an enum index is out of
\* range, and when bytes are left over after the last field.
DecodeFailed == [ok |-> FALSE]

KeyOfBytes(bytes) == CHOOSE key \in Pubkeys : KeyBytes(key) = bytes

DecodeMultisig(bytes) ==
    IF Len(bytes) < 6 \/ bytes[1] > 1 THEN DecodeFailed
    ELSE LET n == FromLeBytes(Slice(bytes, 3, 4))
             read == 6 + n * PUBKEY_BYTES + U64_BYTES IN
         IF Len(bytes) < read THEN DecodeFailed
         ELSE IF Len(bytes) > read THEN DecodeFailed
         ELSE [ok |-> TRUE,
               is_initialized |-> bytes[1] = 1,
               threshold |-> bytes[2],
               owners |-> [i \in 1..n |->
                   KeyOfBytes(Slice(bytes, 7 + (i - 1) * PUBKEY_BYTES, PUBKEY_BYTES))],
               transaction_count |-> Slice(bytes, 7 + n * PUBKEY_BYTES, U64_BYTES)]

DecodeTransaction(bytes) ==
    IF Len(bytes) < PUBKEY_BYTES + 1 + 4 \/ bytes[PUBKEY_BYTES + 1] > 2 THEN DecodeFailed
    ELSE LET d == FromLeBytes(Slice(bytes, PUBKEY_BYTES + 2, 4))
             at_signers == PUBKEY_BYTES + 1 + 4 + d + 1 IN
         IF Len(bytes) < at_signers + 3 THEN DecodeFailed
         ELSE LET n == FromLeBytes(Slice(bytes, at_signers, 4))
                  read == at_signers + 3 + n + PUBKEY_BYTES + U64_BYTES IN
              IF Len(bytes) < read THEN DecodeFailed
              ELSE IF \E i \in 1..n : bytes[at_signers + 3 + i] > 1 THEN DecodeFailed
              ELSE IF Len(bytes) > read THEN DecodeFailed
              ELSE [ok |-> TRUE,
                    multisig |-> KeyOfBytes(Slice(bytes, 1, PUBKEY_BYTES)),
                    status |-> CHOOSE st \in {Active, Executed, Removed} :
                                   StatusIndex(st) = bytes[PUBKEY_BYTES + 1],
                    transaction_data |-> Slice(bytes, PUBKEY_BYTES + 6, d),
                    signers |-> [i \in 1..n |-> bytes[at_signers + 3 + i] = 1],
                    creator |-> KeyOfBytes(Slice(bytes, at_signers + 4 + n, PUBKEY_BYTES)),
                    executed_at |-> Slice(bytes, at_signers + 4 + n + PUBKEY_BYTES, U64_BYTES)]

\* owners.contains(key)
Contains(owners, key) == \E i \in 1..Len(owners) : owners[i] = key

\* owners.iter().position(|o| o == key): the first index (1-based here)
Position(owners, key) ==
    CHOOSE i \in 1..Len(owners) :
        owners[i] = key /\ \A j \in 1..(i - 1) : owners[j] # key

\* sort + dedup leaves one copy of every key
UniqueOwnersLen(owners) == Cardinality(Range(owners))

\* utils::has_enough_approvals / the count in process_execute_transaction
ApprovalCount(signers) == Cardinality({i \in 1..Len(signers) : signers[i]})

\* Variant of ThresholdInvalid without the zero check.
ThresholdInvalidNoZero(threshold, owners) == threshold > AsU8(Len(owners))

\* threshold == 0 || threshold > owners.len() as u8
ThresholdInvalid(threshold, owners) ==
    threshold = 0 \/ threshold > AsU8(Len(owners))

HasDuplicates(owners) == UniqueOwnersLen(owners) # Len(owners)

\* assert_owned_by: only accounts this program created are owned by it
OwnedByProgram(account) == account.exists

Init ==
    /\ multisig = [m \in MultisigAddrs |-> NoAccount]
    /\ transaction = [t \in TxAddrs |-> NoAccount]
    /\ dispatched = [t \in TxAddrs |-> 0]
    /\ approved = [t \in TxAddrs |-> {}]

\* ------------------------------------------------ process_create_multisig
CreateMultisigResult(is_signer, m, threshold, owners) ==
    IF ~is_signer THEN MissingRequiredSignature
    ELSE IF ThresholdInvalid(threshold, owners) THEN InvalidNumberOfSigners
    ELSE IF HasDuplicates(owners) THEN DuplicateOwner
    ELSE IF multisig[m].exists THEN CreateAccountFailed
    ELSE Ok

process_create_multisig(is_signer, m, threshold, owners) ==
    /\ CreateMultisigResult(is_signer, m, threshold, owners) = Ok
    /\ multisig' = [multisig EXCEPT
           ![m] = MultisigAccount(threshold, owners, U64(0), MultisigPackedLen(owners))]
    /\ UNCHANGED <<transaction, dispatched, approved>>

\* --------------------------------------------- process_create_transaction
\* Variant of CreateTransactionResult that creates the account before it
\* looks the caller up in the owners.
CreateTransactionResultAccountFirst(owner, is_signer, m, t) ==
    IF ~is_signer THEN MissingRequiredSignature
    ELSE IF ~OwnedByProgram(multisig[m]) THEN InvalidOwner
    ELSE IF transaction[t].exists THEN CreateAccountFailed
    ELSE IF ~Contains(multisig[m].owners, owner) THEN OwnerNotFound
    ELSE Ok

CreateTransactionResult(owner, is_signer, m, t) ==
    IF ~is_signer THEN MissingRequiredSignature
    ELSE IF ~OwnedByProgram(multisig[m]) THEN InvalidOwner
    ELSE IF ~Contains(multisig[m].owners, owner) THEN OwnerNotFound
    ELSE IF transaction[t].exists THEN CreateAccountFailed
    ELSE Ok

\* Variant of InitialSigners that leaves the creator's slot clear.
InitialSignersAllFalse(owners, owner) ==
    [i \in 1..Len(owners) |-> FALSE]

\* vec![false; owners.len()] with the creator's position set
InitialSigners(owners, owner) ==
    [i \in 1..Len(owners) |-> i = Position(owners, owner)]

\* Variant of IncrementCount that bumps the neighbouring u8 field.
IncrementThreshold(account) ==
    [account EXCEPT !.threshold = @ + 1]

\* multisig_account.transaction_count += 1 on a u64.  At u64::MAX the
\* addition wraps to 0 in a build without overflow checks and panics in a
\* build with them.
IncrementCount(account) ==
    [account EXCEPT !.transaction_count = WrappingIncrement(@)]

\* Whether the addition panics: only at u64::MAX, only with overflow checks.
AddPanics(account, overflow_checks) ==
    overflow_checks /\ IsU64Max(account.transaction_count)

process_create_transaction(owner, is_signer, m, t, data) ==
    /\ CreateTransactionResult(owner, is_signer, m, t) = Ok
    /\ transaction' = [transaction EXCEPT
           ![t] = Transaction(m, Active, data,
                              InitialSigners(multisig[m].owners, owner), owner, 0)]
    /\ \E overflow_checks \in BOOLEAN : ~AddPanics(multisig[m], overflow_checks)
    /\ multisig' = [multisig EXCEPT ![m] = IncrementCount(@)]
    /\ approved' = [approved EXCEPT ![t] = {owner}]
    /\ UNCHANGED dispatched

\* -------------------------------------------- process_approve_transaction
\* Variant of ApproveResult without the early owners.contains check: the
\* caller is looked up only by position(), after the status check.
ApproveResultLateOwnerCheck(owner, is_signer, m, t) ==
    IF ~is_signer THEN MissingRequiredSignature
    ELSE IF ~OwnedByProgram(multisig[m]) THEN InvalidOwner
    ELSE IF ~OwnedByProgram(transaction[t]) THEN InvalidOwner
    ELSE IF transaction[t].multisig # m THEN InvalidTransactionData
    ELSE IF transaction[t].status # Active THEN TransactionNotReady
    ELSE IF ~Contains(multisig[m].owners, owner) THEN OwnerNotFound
    ELSE IF Position(multisig[m].owners, owner) > Len(transaction[t].signers)
         THEN IndexPanic
    ELSE IF transaction[t].signers[Position(multisig[m].owners, owner)]
         THEN OwnerAlreadySigned
    ELSE Ok

\* Variant of ApproveResult that looks at the caller's slot before it looks
\* at the status.
ApproveResultSlotFirst(owner, is_signer, m, t) ==
    IF ~is_signer THEN MissingRequiredSignature
    ELSE IF ~OwnedByProgram(multisig[m]) THEN InvalidOwner
    ELSE IF ~Contains(multisig[m].owners, owner) THEN OwnerNotFound
    ELSE IF ~OwnedByProgram(transaction[t]) THEN InvalidOwner
    ELSE IF transaction[t].multisig # m THEN InvalidTransactionData
    ELSE IF Position(multisig[m].owners, owner) > Len(transaction[t].signers)
         THEN IndexPanic
    ELSE IF transaction[t].signers[Position(multisig[m].owners, owner)]
         THEN OwnerAlreadySigned
    ELSE IF transaction[t].status # Active THEN TransactionNotReady
    ELSE Ok

ApproveResult(owner, is_signer, m, t) ==
    IF ~is_signer THEN MissingRequiredSignature
    ELSE IF ~OwnedByProgram(multisig[m]) THEN InvalidOwner
    ELSE IF ~Contains(multisig[m].owners, owner) THEN OwnerNotFound
    ELSE IF ~OwnedByProgram(transaction[t]) THEN InvalidOwner
    ELSE IF transaction[t].multisig # m THEN InvalidTransactionData
    ELSE IF transaction[t].status # Active THEN TransactionNotReady
    ELSE IF Position(multisig[m].owners, owner) > Len(transaction[t].signers)
         THEN IndexPanic
    ELSE IF transaction[t].signers[Position(multisig[m].owners, owner)]
         THEN OwnerAlreadySigned
    ELSE Ok

\* Variant of MarkApproved that rebuilds the vector as the creation does:
\* all false but the caller's slot.
MarkApprovedOnly(tx, owner_index) ==
    [tx EXCEPT !.signers = [i \in 1..Len(tx.signers) |-> i = owner_index]]

\* Variant of MarkApproved that pushes the approval onto the vector.
MarkApprovedPush(tx, owner_index) ==
    [tx EXCEPT !.signers = Append(@, TRUE)]

\* Variant of MarkApproved that closes the transaction with the approval.
MarkApprovedAndClose(tx, owner_index) ==
    [tx EXCEPT !.signers[owner_index] = TRUE, !.status = Executed]

\* transaction.signers[owner_index] = true
MarkApproved(tx, owner_index) == [tx EXCEPT !.signers[owner_index] = TRUE]

process_approve_transaction(owner, is_signer, m, t) ==
    /\ ApproveResult(owner, is_signer, m, t) = Ok
    /\ transaction' = [transaction EXCEPT
           ![t] = MarkApproved(@, Position(multisig[m].owners, owner))]
    /\ approved' = [approved EXCEPT ![t] = @ \cup {owner}]
    /\ UNCHANGED <<multisig, dispatched>>

\* -------------------------------------------- process_execute_transaction
\* Variant of QuorumMissing that is off by one.
QuorumMissingOffByOne(signers, threshold) == ApprovalCount(signers) + 1 < threshold

\* approval_count < multisig_account.threshold as usize
QuorumMissing(signers, threshold) == ApprovalCount(signers) < threshold

\* The outcomes of invoke() on the payload's program.  The instruction is
\* built with accounts: vec![], so an invocation of this program itself ends
\* in NotEnoughAccountKeys (every handler starts with next_account_info);
\* any other program may succeed or fail.
InvokeOutcomes(program_id) ==
    IF program_id = MultisigProgram THEN {FALSE} ELSE {TRUE, FALSE}

\* Variant of ExecuteResult that drops the `?` after invoke(): the outcome of
\* the invocation is ignored.
ExecuteResultIgnoreInvoke(owner, is_signer, m, t, invoke_ok) ==
    IF ~is_signer THEN MissingRequiredSignature
    ELSE IF ~OwnedByProgram(multisig[m]) THEN InvalidOwner
    ELSE IF ~Contains(multisig[m].owners, owner) THEN OwnerNotFound
    ELSE IF ~OwnedByProgram(transaction[t]) THEN InvalidOwner
    ELSE IF transaction[t].multisig # m THEN InvalidTransactionData
    ELSE IF transaction[t].status # Active THEN TransactionNotReady
    ELSE IF QuorumMissing(transaction[t].signers, multisig[m].threshold)
         THEN NotEnoughSigners
    ELSE IF transaction[t].transaction_data.bytes_len < PUBKEY_BYTES
         THEN InvalidTransactionData
    ELSE Ok

\* Variant of ExecuteResult that accepts any signer.
ExecuteResultAnySigner(owner, is_signer, m, t, invoke_ok) ==
    IF ~is_signer THEN MissingRequiredSignature
    ELSE IF ~OwnedByProgram(multisig[m]) THEN InvalidOwner
    ELSE IF ~OwnedByProgram(transaction[t]) THEN InvalidOwner
    ELSE IF transaction[t].multisig # m THEN InvalidTransactionData
    ELSE IF transaction[t].status # Active THEN TransactionNotReady
    ELSE IF QuorumMissing(transaction[t].signers, multisig[m].threshold)
         THEN NotEnoughSigners
    ELSE IF transaction[t].transaction_data.bytes_len < PUBKEY_BYTES
         THEN InvalidTransactionData
    ELSE IF ~invoke_ok THEN InvokeFailed
    ELSE Ok

\* Variant of ExecuteResult without the check of the payload's length.
ExecuteResultNoLengthCheck(owner, is_signer, m, t, invoke_ok) ==
    IF ~is_signer THEN MissingRequiredSignature
    ELSE IF ~OwnedByProgram(multisig[m]) THEN InvalidOwner
    ELSE IF ~Contains(multisig[m].owners, owner) THEN OwnerNotFound
    ELSE IF ~OwnedByProgram(transaction[t]) THEN InvalidOwner
    ELSE IF transaction[t].multisig # m THEN InvalidTransactionData
    ELSE IF transaction[t].status # Active THEN TransactionNotReady
    ELSE IF QuorumMissing(transaction[t].signers, multisig[m].threshold)
         THEN NotEnoughSigners
    ELSE IF ~invoke_ok THEN InvokeFailed
    ELSE Ok

ExecuteResult(owner, is_signer, m, t, invoke_ok) ==
    IF ~is_signer THEN MissingRequiredSignature
    ELSE IF ~OwnedByProgram(multisig[m]) THEN InvalidOwner
    ELSE IF ~Contains(multisig[m].owners, owner) THEN OwnerNotFound
    ELSE IF ~OwnedByProgram(transaction[t]) THEN InvalidOwner
    ELSE IF transaction[t].multisig # m THEN InvalidTransactionData
    ELSE IF transaction[t].status # Active THEN TransactionNotReady
    ELSE IF QuorumMissing(transaction[t].signers, multisig[m].threshold)
         THEN NotEnoughSigners
    ELSE IF transaction[t].transaction_data.bytes_len < PUBKEY_BYTES
         THEN InvalidTransactionData
    ELSE IF ~invoke_ok THEN InvokeFailed
    ELSE Ok

\* Variants of MarkExecuted: one forgets the status, one the timestamp.
MarkExecutedNoStatus(tx, now) == [tx EXCEPT !.executed_at = now]
MarkExecutedNoStamp(tx, now) == [tx EXCEPT !.status = Executed]

\* status = Executed; executed_at = Clock::get()?.unix_timestamp as u64
\* (the clock values are non-negative, so the cast keeps the value)
MarkExecuted(tx, now) == [tx EXCEPT !.status = Executed, !.executed_at = now]

process_execute_transaction(owner, is_signer, m, t, invoke_ok, now) ==
    /\ ExecuteResult(owner, is_signer, m, t, invoke_ok) = Ok
    /\ invoke_ok \in InvokeOutcomes(transaction[t].transaction_data.program_id)
    /\ dispatched' = [dispatched EXCEPT ![t] = @ + 1]
    /\ transaction' = [transaction EXCEPT ![t] = MarkExecuted(@, now)]
    /\ UNCHANGED <<multisig, approved>>

\* --------------------------------------------- process_remove_transaction
\* transaction.creator != owner && transaction.status != Executed
RemoveDenied(tx, owner) == tx.creator # owner /\ tx.status # Executed

\* Variant of RemoveResult that does not compare the transaction's multisig
\* with the multisig account of the call.
RemoveResultNoMultisigCheck(owner, is_signer, m, t) ==
    IF ~is_signer THEN MissingRequiredSignature
    ELSE IF ~OwnedByProgram(multisig[m]) THEN InvalidOwner
    ELSE IF ~Contains(multisig[m].owners, owner) THEN OwnerNotFound
    ELSE IF ~OwnedByProgram(transaction[t]) THEN InvalidOwner
    ELSE IF RemoveDenied(transaction[t], owner) THEN AuthorityMismatch
    ELSE Ok

\* Variant of RemoveResult that lets the creator of the transaction pass the
\* owner check.
RemoveResultCreatorPasses(owner, is_signer, m, t) ==
    IF ~is_signer THEN MissingRequiredSignature
    ELSE IF ~OwnedByProgram(multisig[m]) THEN InvalidOwner
    ELSE IF /\ ~Contains(multisig[m].owners, owner)
            /\ ~(transaction[t].exists /\ transaction[t].creator = owner)
         THEN OwnerNotFound
    ELSE IF ~OwnedByProgram(transaction[t]) THEN InvalidOwner
    ELSE IF transaction[t].multisig # m THEN InvalidTransactionData
    ELSE IF RemoveDenied(transaction[t], owner) THEN AuthorityMismatch
    ELSE Ok

RemoveResult(owner, is_signer, m, t) ==
    IF ~is_signer THEN MissingRequiredSignature
    ELSE IF ~OwnedByProgram(multisig[m]) THEN InvalidOwner
    ELSE IF ~Contains(multisig[m].owners, owner) THEN OwnerNotFound
    ELSE IF ~OwnedByProgram(transaction[t]) THEN InvalidOwner
    ELSE IF transaction[t].multisig # m THEN InvalidTransactionData
    ELSE IF RemoveDenied(transaction[t], owner) THEN AuthorityMismatch
    ELSE Ok

\* Variant of MarkRemoved that also stamps the removal in executed_at.
MarkRemovedStamped(tx) == [tx EXCEPT !.status = Removed, !.executed_at = 1]

\* Variant of MarkRemoved that also clears the approvals.
MarkRemovedCleared(tx) ==
    [tx EXCEPT !.status = Removed, !.signers = [i \in 1..Len(tx.signers) |-> FALSE]]

\* transaction.status = Removed
MarkRemoved(tx) == [tx EXCEPT !.status = Removed]

process_remove_transaction(owner, is_signer, m, t) ==
    /\ RemoveResult(owner, is_signer, m, t) = Ok
    /\ transaction' = [transaction EXCEPT ![t] = MarkRemoved(@)]
    /\ UNCHANGED <<multisig, dispatched, approved>>

\* -------------------------------------------------- process_change_owners
\* serialize into the account's data slice fails once the slice is used up
FitsAccount(account, owners) == MultisigSerializedLen(owners) <= account.data_len

\* Variant of ChangeOwnersResult that trusts the arguments: no threshold
\* check and no duplicate check.
ChangeOwnersResultNoValidation(m, t, threshold, owners) ==
    IF ~OwnedByProgram(multisig[m]) THEN InvalidOwner
    ELSE IF ~OwnedByProgram(transaction[t]) THEN InvalidOwner
    ELSE IF transaction[t].multisig # m THEN InvalidTransactionData
    ELSE IF transaction[t].status # Executed THEN TransactionNotReady
    ELSE IF ~FitsAccount(multisig[m], owners) THEN BorshIoError
    ELSE Ok

\* Variant of ChangeOwnersResult that only refuses an Active transaction.
ChangeOwnersResultNotActive(m, t, threshold, owners) ==
    IF ~OwnedByProgram(multisig[m]) THEN InvalidOwner
    ELSE IF ~OwnedByProgram(transaction[t]) THEN InvalidOwner
    ELSE IF transaction[t].multisig # m THEN InvalidTransactionData
    ELSE IF transaction[t].status = Active THEN TransactionNotReady
    ELSE IF ThresholdInvalid(threshold, owners) THEN InvalidNumberOfSigners
    ELSE IF HasDuplicates(owners) THEN DuplicateOwner
    ELSE IF ~FitsAccount(multisig[m], owners) THEN BorshIoError
    ELSE Ok

ChangeOwnersResult(m, t, threshold, owners) ==
    IF ~OwnedByProgram(multisig[m]) THEN InvalidOwner
    ELSE IF ~OwnedByProgram(transaction[t]) THEN InvalidOwner
    ELSE IF transaction[t].multisig # m THEN InvalidTransactionData
    ELSE IF transaction[t].status # Executed THEN TransactionNotReady
    ELSE IF ThresholdInvalid(threshold, owners) THEN InvalidNumberOfSigners
    ELSE IF HasDuplicates(owners) THEN DuplicateOwner
    ELSE IF ~FitsAccount(multisig[m], owners) THEN BorshIoError
    ELSE Ok

\* multisig_account.threshold = threshold; multisig_account.owners = owners
SetOwners(account, threshold, owners) ==
    [account EXCEPT !.threshold = threshold, !.owners = owners]

process_change_owners(m, t, threshold, owners) ==
    /\ ChangeOwnersResult(m, t, threshold, owners) = Ok
    /\ multisig' = [multisig EXCEPT ![m] = SetOwners(@, threshold, owners)]
    /\ UNCHANGED <<transaction, dispatched, approved>>

\* A ChangeOwners instruction as it is submitted: the enclosing transaction is
\* signed by the keys in tx_signers, and the instruction lists the multisig
\* account and the transaction account, neither as a signer.  The handler
\* reads these two accounts only and looks at no signature.
ChangeOwnersSignedBy(tx_signers, m, t, threshold, owners) ==
    process_change_owners(m, t, threshold, owners)

\* ------------------------------------------------------ process_instruction
\* The instructions that may be submitted, over the multisig accounts Ms and
\* the transaction accounts Ts.
CreateMultisig(Ms) ==
    \E is_signer \in BOOLEAN, m \in Ms, threshold \in Thresholds, owners \in OwnerLists :
        process_create_multisig(is_signer, m, threshold, owners)

CreateTransaction(Ms, Ts) ==
    \E owner \in Keys, is_signer \in BOOLEAN, m \in Ms, t \in Ts,
       data \in TransactionDatas :
        process_create_transaction(owner, is_signer, m, t, data)

ApproveTransaction(Ms, Ts) ==
    \E owner \in Keys, is_signer \in BOOLEAN, m \in Ms, t \in Ts :
        process_approve_transaction(owner, is_signer, m, t)

ExecuteTransaction(Ms, Ts) ==
    \E owner \in Keys, is_signer \in BOOLEAN, m \in Ms, t \in Ts,
       invoke_ok \in BOOLEAN, now \in ClockValues :
        process_execute_transaction(owner, is_signer, m, t, invoke_ok, now)

RemoveTransaction(Ms, Ts) ==
    \E owner \in Keys, is_signer \in BOOLEAN, m \in Ms, t \in Ts :
        process_remove_transaction(owner, is_signer, m, t)

ChangeOwners(Ms, Ts) ==
    \E m \in Ms, t \in Ts, threshold \in Thresholds, owners \in OwnerLists :
        process_change_owners(m, t, threshold, owners)

\* One multisig with two transactions.
Next ==
    \/ CreateMultisig({"M1"})
    \/ CreateTransaction({"M1"}, TxAddrs)
    \/ ApproveTransaction({"M1"}, TxAddrs)
    \/ ExecuteTransaction({"M1"}, TxAddrs)
    \/ RemoveTransaction({"M1"}, TxAddrs)
    \/ ChangeOwners({"M1"}, TxAddrs)

Spec == Init /\ [][Next]_vars

\* ------------------------------------------- CreateMultisig, long owner lists
\* The owners of a CreateMultisig instruction are a Vec<Pubkey> of any length
\* and its threshold is a u8.  Owner lists around the range of a u8, with
\* keys written as numbers: n distinct keys, or n keys whose last repeats the
\* first.
KeyList(n) == [i \in 1..n |-> i]
KeyListRepeat(n) == [i \in 1..n |-> IF i = n THEN 1 ELSE i]
CreateLens == (0..3) \cup ((U8_RANGE - 1)..(U8_RANGE + MaxExcess))
CreateOwnerLists ==
    {KeyList(n) : n \in CreateLens} \cup {KeyListRepeat(n) : n \in CreateLens \ {0, 1}}
CreateThresholds == (0..3) \cup {U8_RANGE - 1}

\* CreateMultisig instructions only, on both multisig addresses.
NextCreate ==
    \E is_signer \in BOOLEAN, m \in MultisigAddrs, threshold \in CreateThresholds,
       owners \in CreateOwnerLists :
        process_create_multisig(is_signer, m, threshold, owners)

SpecCreate == Init /\ [][NextCreate]_vars

\* ------------------------------------------- a multisig with a high count
\* A multisig account after so many CreateTransaction instructions that its
\* transaction_count is at most MaxCountGap below u64::MAX, and the
\* instructions that can follow on it.
HighCounts ==
    {[i \in 1..U64_BYTES |-> IF i = 1 THEN U8_RANGE - 1 - gap ELSE U8_RANGE - 1] :
        gap \in 0..MaxCountGap}

InitCount ==
    /\ \E threshold \in Thresholds, owners \in OwnerLists, count \in HighCounts :
           /\ ~ThresholdInvalid(threshold, owners)
           /\ ~HasDuplicates(owners)
           /\ multisig = [m \in MultisigAddrs |->
                  IF m = "M1"
                  THEN MultisigAccount(threshold, owners, count, MultisigPackedLen(owners))
                  ELSE NoAccount]
    /\ transaction = [t \in TxAddrs |-> NoAccount]
    /\ dispatched = [t \in TxAddrs |-> 0]
    /\ approved = [t \in TxAddrs |-> {}]

NextCount ==
    \/ CreateTransaction({"M1"}, TxAddrs)
    \/ ApproveTransaction({"M1"}, TxAddrs)
    \/ ExecuteTransaction({"M1"}, TxAddrs)
    \/ RemoveTransaction({"M1"}, TxAddrs)
    \/ ChangeOwners({"M1"}, TxAddrs)

SpecCount == InitCount /\ [][NextCount]_vars

\* ----------------------------------------------------- two multisig accounts
\* Signed instructions on both multisig addresses, with threshold 1, the owner
\* lists A, B and A,B, and a payload that is too short or targets another
\* program.
TwoOwnerLists == {<<"A">>, <<"B">>, <<"A", "B">>}
TwoDatas == {ShortData, FullData(OtherProgram, OpaqueData)}

NextTwo ==
    \/ \E m \in MultisigAddrs, owners \in TwoOwnerLists :
           process_create_multisig(TRUE, m, 1, owners)
    \/ \E owner \in Keys, m \in MultisigAddrs, t \in TxAddrs, data \in TwoDatas :
           process_create_transaction(owner, TRUE, m, t, data)
    \/ \E owner \in Keys, m \in MultisigAddrs, t \in TxAddrs :
           process_approve_transaction(owner, TRUE, m, t)
    \/ \E owner \in Keys, m \in MultisigAddrs, t \in TxAddrs, invoke_ok \in BOOLEAN,
          now \in ClockValues :
           process_execute_transaction(owner, TRUE, m, t, invoke_ok, now)
    \/ \E owner \in Keys, m \in MultisigAddrs, t \in TxAddrs :
           process_remove_transaction(owner, TRUE, m, t)
    \/ \E m \in MultisigAddrs, t \in TxAddrs, owners \in TwoOwnerLists :
           process_change_owners(m, t, 1, owners)

SpecTwo == Init /\ [][NextTwo]_vars

\* --------------------------------------------------------- three owners
\* One multisig with the three owners A, B, C in one of three orders, and
\* signed instructions by the three keys on its transactions.
Keys3 == {"A", "B", "C"}
ThreeOwnerLists == {<<"A", "B", "C">>, <<"B", "A", "C">>, <<"B", "C", "A">>}
ThreeThresholds == {1, 3}
ThreeDatas == {FullData(OtherProgram, OpaqueData)}

NextThree ==
    \/ \E threshold \in ThreeThresholds, owners \in ThreeOwnerLists :
           process_create_multisig(TRUE, "M1", threshold, owners)
    \/ \E owner \in Keys3, t \in TxAddrs, data \in ThreeDatas :
           process_create_transaction(owner, TRUE, "M1", t, data)
    \/ \E owner \in Keys3, t \in TxAddrs :
           process_approve_transaction(owner, TRUE, "M1", t)
    \/ \E owner \in Keys3, t \in TxAddrs, now \in ClockValues :
           process_execute_transaction(owner, TRUE, "M1", t, TRUE, now)
    \/ \E owner \in Keys3, t \in TxAddrs :
           process_remove_transaction(owner, TRUE, "M1", t)
    \/ \E t \in TxAddrs, threshold \in ThreeThresholds, owners \in ThreeOwnerLists :
           process_change_owners("M1", t, threshold, owners)

SpecThree == Init /\ [][NextThree]_vars

\* ================================================================ claims
\* The checks of a handler that precede its look at the transaction's status:
\* the caller signed, the multisig account is the program's and lists the
\* caller as an owner, and the transaction belongs to that multisig.
Authorized(owner, is_signer, m, t) ==
    /\ is_signer
    /\ multisig[m].exists
    /\ Contains(multisig[m].owners, owner)
    /\ transaction[t].exists
    /\ transaction[t].multisig = m

\* Some field of the multisig record other than transaction_count changes.
OwnersChange(m) ==
    /\ multisig[m].exists
    /\ multisig'[m].exists
    /\ \/ multisig'[m].owners # multisig[m].owners
       \/ multisig'[m].threshold # multisig[m].threshold

\* C1: the payload of a transaction is dispatched at most once, and once it
\* has been dispatched every execute call on that transaction is rejected;
\* the error is TransactionNotReady for every call that passes the signer,
\* owner and multisig checks that precede the status check.
C1_AtMostOnceDispatch ==
    \A t \in TxAddrs :
        /\ dispatched[t] <= 1
        /\ dispatched[t] >= 1 =>
             \A owner \in Keys, is_signer \in BOOLEAN, m \in MultisigAddrs,
                invoke_ok \in BOOLEAN :
                 LET r == ExecuteResult(owner, is_signer, m, t, invoke_ok) IN
                 /\ r # Ok
                 /\ Authorized(owner, is_signer, m, t) => r = TransactionNotReady

\* A dispatched transaction on which an owner's execute call is answered
\* with TransactionNotReady.
C1_Witness ==
    \E t \in TxAddrs, owner \in Keys, m \in MultisigAddrs :
        /\ dispatched[t] = 1
        /\ ExecuteResult(owner, TRUE, m, t, TRUE) = TransactionNotReady

\* C2: once a transaction's status is Executed or Removed, no step changes
\* that status.
C2_TerminalStatus ==
    [][\A t \in TxAddrs :
          (transaction[t].exists /\ transaction[t].status \in {Executed, Removed})
              => transaction'[t].status = transaction[t].status]_vars

\* C3: while the number of true flags of an Active transaction is below the
\* multisig's current threshold every execute call on it is rejected, with
\* NotEnoughSigners when the call passes the checks before the status check;
\* and a step that executes a transaction starts from a state in which the
\* count is at least the threshold the multisig has at that moment.
C3_QuorumAtExecute ==
    /\ [](\A t \in TxAddrs, owner \in Keys, is_signer \in BOOLEAN,
             m \in MultisigAddrs, invoke_ok \in BOOLEAN :
             (/\ transaction[t].exists
              /\ transaction[t].status = Active
              /\ multisig[transaction[t].multisig].exists
              /\ ApprovalCount(transaction[t].signers)
                     < multisig[transaction[t].multisig].threshold)
             => LET r == ExecuteResult(owner, is_signer, m, t, invoke_ok) IN
                /\ r # Ok
                /\ Authorized(owner, is_signer, m, t) => r = NotEnoughSigners)
    /\ [][\A t \in TxAddrs :
             (transaction[t].exists /\ transaction'[t].status # transaction[t].status
                  /\ transaction'[t].status = Executed)
             => ApprovalCount(transaction[t].signers)
                    >= multisig[transaction[t].multisig].threshold]_vars

\* An Active transaction created when one approval was a quorum (its vector
\* has one slot, which is set) whose execute is now answered with
\* NotEnoughSigners, the threshold having been raised since.
C3_Witness ==
    \E t \in TxAddrs, owner \in Keys :
        /\ transaction[t].exists
        /\ transaction[t].status = Active
        /\ transaction[t].signers = <<TRUE>>
        /\ multisig[transaction[t].multisig].threshold = 2
        /\ ExecuteResult(owner, TRUE, transaction[t].multisig, t, TRUE) = NotEnoughSigners

\* C4: a step changes a multisig's owners or threshold only if some Executed
\* transaction of that multisig carries a ChangeOwners payload with exactly
\* the owners and threshold the step installs.
C4_UpdateMatchesProposal ==
    [][\A m \in MultisigAddrs :
          OwnersChange(m) =>
              \E t \in TxAddrs :
                  /\ transaction[t].exists
                  /\ transaction[t].status = Executed
                  /\ transaction[t].multisig = m
                  /\ transaction[t].transaction_data.data
                         = ChangeOwnersData(multisig'[m].threshold, multisig'[m].owners)]_vars

\* C5: every multisig account has pairwise distinct owners and a threshold
\* between 1 and the number of owners.
C5_RegistryInvariant ==
    \A m \in MultisigAddrs :
        multisig[m].exists =>
            /\ \A i, j \in 1..Len(multisig[m].owners) :
                   multisig[m].owners[i] = multisig[m].owners[j] => i = j
            /\ 1 <= multisig[m].threshold
            /\ multisig[m].threshold <= Len(multisig[m].owners)

\* A multisig whose owner list no longer has the length it was created with.
C5_Witness ==
    \E m \in MultisigAddrs :
        /\ multisig[m].exists
        /\ multisig[m].data_len # MultisigPackedLen(multisig[m].owners)

\* C6: create-transaction, approve, execute and remove steps leave every
\* multisig's owners and threshold as they were (no step that changes them
\* is a step of one of these four handlers), and every step that changes
\* them is a ChangeOwners step.
C6_GovernanceSoleWriter ==
    [][(\E mm \in MultisigAddrs : OwnersChange(mm))
          => /\ \A owner \in Keys, is_signer \in BOOLEAN, m \in MultisigAddrs,
                   t \in TxAddrs :
                   ~(\/ \E data \in TransactionDatas :
                            process_create_transaction(owner, is_signer, m, t, data)
                     \/ process_approve_transaction(owner, is_signer, m, t)
                     \/ \E invoke_ok \in BOOLEAN, now \in ClockValues :
                            process_execute_transaction(owner, is_signer, m, t,
                                                        invoke_ok, now)
                     \/ process_remove_transaction(owner, is_signer, m, t))
             /\ \E m \in MultisigAddrs, t \in TxAddrs :
                    /\ multisig'[m].exists
                    /\ multisig'[m].threshold \in Thresholds
                    /\ multisig'[m].owners \in OwnerLists
                    /\ process_change_owners(m, t, multisig'[m].threshold,
                                             multisig'[m].owners)]_vars

\* One transaction created, approved by a second owner and executed, another
\* one created and removed, next to their multisig.
C6_Witness ==
    \E t1, t2 \in TxAddrs :
        /\ transaction[t1].exists /\ transaction[t2].exists
        /\ transaction[t1].status = Executed
        /\ ApprovalCount(transaction[t1].signers) = 2
        /\ transaction[t2].status = Removed
        /\ transaction[t2].executed_at = 0
        /\ multisig[transaction[t1].multisig].transaction_count = U64(2)

\* C7: a step that executes a transaction whose payload is a ChangeOwners
\* instruction leaves the transaction's multisig with the owners and the
\* threshold of that payload.
C7_ExecuteAppliesGovernance ==
    [][\A t \in TxAddrs :
          (/\ transaction[t].exists
           /\ transaction[t].status = Active
           /\ transaction'[t].status = Executed
           /\ transaction[t].transaction_data.data.variant = "ChangeOwners")
          => /\ multisig'[transaction[t].multisig].owners
                    = transaction[t].transaction_data.data.owners
             /\ multisig'[transaction[t].multisig].threshold
                    = transaction[t].transaction_data.data.threshold]_vars

\* C8: every remove step is requested by the transaction's creator.
C8_OnlyCreatorRemoves ==
    [][\A owner \in Keys, is_signer \in BOOLEAN, m \in MultisigAddrs, t \in TxAddrs :
          process_remove_transaction(owner, is_signer, m, t)
              => owner = transaction[t].creator]_vars

\* C9: every remove step starts from an Active transaction.
C9_RemoveOnlyActive ==
    [][\A owner \in Keys, is_signer \in BOOLEAN, m \in MultisigAddrs, t \in TxAddrs :
          process_remove_transaction(owner, is_signer, m, t)
              => transaction[t].status = Active]_vars

\* C10: an execute step sets the status to Executed and executed_at to the
\* clock's time, and a transaction that goes from Active to Executed is
\* dispatched exactly once in that step while its signers, payload, creator
\* and multisig stay as they were.
C10_ExecuteEffect ==
    [][/\ \A owner \in Keys, is_signer \in BOOLEAN, m \in MultisigAddrs, t \in TxAddrs,
             invoke_ok \in BOOLEAN, now \in ClockValues :
             process_execute_transaction(owner, is_signer, m, t, invoke_ok, now)
                 => /\ transaction'[t].status = Executed
                    /\ transaction'[t].executed_at = now
       /\ \A t \in TxAddrs :
             (/\ transaction[t].exists
              /\ transaction[t].status = Active
              /\ transaction'[t].status = Executed)
             => /\ dispatched'[t] = dispatched[t] + 1
                /\ transaction'[t].executed_at \in ClockValues
                /\ transaction'[t].signers = transaction[t].signers
                /\ transaction'[t].transaction_data = transaction[t].transaction_data
                /\ transaction'[t].creator = transaction[t].creator
                /\ transaction'[t].multisig = transaction[t].multisig]_vars

\* An executed transaction: stamped, dispatched once.
C10_Witness ==
    \E t \in TxAddrs :
        /\ transaction[t].exists
        /\ transaction[t].status = Executed
        /\ transaction[t].executed_at \in ClockValues
        /\ dispatched[t] = 1

\* C11: an execute call whose invocation of the payload's program fails is
\* rejected: it is never Ok, and it is InvokeFailed when the call passes every
\* check before the invocation.  In that state the transaction is Active
\* with executed_at = 0 and the same call with a succeeding invocation is Ok.
\* A transaction whose payload targets this program (whose invocation always
\* fails) is therefore never Executed, never dispatched and never stamped.
C11_DispatchFailureAtomic ==
    /\ \A t \in TxAddrs, owner \in Keys, is_signer \in BOOLEAN, m \in MultisigAddrs :
           LET r == ExecuteResult(owner, is_signer, m, t, FALSE) IN
           /\ r # Ok
           /\ (/\ Authorized(owner, is_signer, m, t)
               /\ transaction[t].status = Active
               /\ ApprovalCount(transaction[t].signers) >= multisig[m].threshold
               /\ transaction[t].transaction_data.bytes_len >= PUBKEY_BYTES)
              => /\ r = InvokeFailed
                 /\ transaction[t].executed_at = 0
                 /\ ExecuteResult(owner, is_signer, m, t, TRUE) = Ok
    /\ \A t \in TxAddrs :
           (/\ transaction[t].exists
            /\ transaction[t].transaction_data.bytes_len >= PUBKEY_BYTES
            /\ transaction[t].transaction_data.program_id = MultisigProgram)
           => /\ transaction[t].status # Executed
              /\ transaction[t].executed_at = 0
              /\ dispatched[t] = 0

\* An Active transaction with a quorum of two approvals whose payload targets
\* this program: the execute call is answered with InvokeFailed.
C11_Witness ==
    \E t \in TxAddrs, owner \in Keys :
        /\ transaction[t].exists
        /\ transaction[t].status = Active
        /\ transaction[t].transaction_data.program_id = MultisigProgram
        /\ ApprovalCount(transaction[t].signers) = 2
        /\ multisig[transaction[t].multisig].threshold = 2
        /\ ExecuteResult(owner, TRUE, transaction[t].multisig, t, FALSE) = InvokeFailed

\* C12: an approve call signed by a key that is not in the owners of the
\* multisig account it names is answered with OwnerNotFound, whatever the
\* transaction account holds (no record, or a record in any status); unsigned
\* it is rejected as well.
C12_ApproveByNonOwner ==
    \A owner \in Keys, m \in MultisigAddrs, t \in TxAddrs :
        (multisig[m].exists /\ ~Contains(multisig[m].owners, owner))
            => /\ ApproveResult(owner, TRUE, m, t) = OwnerNotFound
               /\ ApproveResult(owner, FALSE, m, t) # Ok

\* An Executed and a Removed transaction of a multisig, and a key outside its
\* owners whose approve calls on both are answered with OwnerNotFound.
C12_Witness ==
    \E owner \in Keys, m \in MultisigAddrs, t1, t2 \in TxAddrs :
        /\ multisig[m].exists
        /\ ~Contains(multisig[m].owners, owner)
        /\ transaction[t1].exists /\ transaction[t1].multisig = m
        /\ transaction[t1].status = Executed
        /\ transaction[t2].exists /\ transaction[t2].multisig = m
        /\ transaction[t2].status = Removed
        /\ ApproveResult(owner, TRUE, m, t1) = OwnerNotFound
        /\ ApproveResult(owner, TRUE, m, t2) = OwnerNotFound

\* C13: an approve call by a signing owner on a transaction of the multisig
\* whose status is Executed or Removed is answered with TransactionNotReady,
\* whether the owner's slot is set, clear or beyond the end of the vector.
C13_ApproveNotActive ==
    \A owner \in Keys, m \in MultisigAddrs, t \in TxAddrs :
        (Authorized(owner, TRUE, m, t) /\ transaction[t].status \in {Executed, Removed})
            => ApproveResult(owner, TRUE, m, t) = TransactionNotReady

\* An Executed transaction on which one owner's slot is set and the other
\* owner's slot is clear: both approve calls are answered with
\* TransactionNotReady.
C13_Witness ==
    \E m \in MultisigAddrs, t \in TxAddrs :
        /\ transaction[t].exists
        /\ transaction[t].multisig = m
        /\ transaction[t].status = Executed
        /\ transaction[t].signers = <<TRUE, FALSE>>
        /\ multisig[m].owners = <<"A", "B">>
        /\ ApproveResult("A", TRUE, m, t) = TransactionNotReady
        /\ ApproveResult("B", TRUE, m, t) = TransactionNotReady

\* C14: the creator's slot is set when the transaction is created, so an
\* approve call by the creator is a second approval by the same key: no
\* approve step on a transaction is requested by its creator.
C14_NoSecondApproval ==
    [][\A owner \in Keys, is_signer \in BOOLEAN, m \in MultisigAddrs, t \in TxAddrs :
          process_approve_transaction(owner, is_signer, m, t)
              => owner # transaction[t].creator]_vars

\* C15: an approve step sets the slot at the caller's position in the owners,
\* which was clear, and a step that changes the signers of a transaction
\* turns exactly one slot from false to true and changes nothing else: not
\* the other slots or fields of that transaction, not another transaction,
\* not a multisig account, not the dispatch counts.
C15_ApproveEffect ==
    [][/\ \A owner \in Keys, is_signer \in BOOLEAN, m \in MultisigAddrs, t \in TxAddrs :
             process_approve_transaction(owner, is_signer, m, t)
                 => /\ ~transaction[t].signers[Position(multisig[m].owners, owner)]
                    /\ transaction'[t] =
                           [transaction[t] EXCEPT
                               !.signers[Position(multisig[m].owners, owner)] = TRUE]
       /\ \A t \in TxAddrs :
             (transaction[t].exists /\ transaction'[t].signers # transaction[t].signers)
             => /\ \E i \in 1..Len(transaction[t].signers) :
                       /\ ~transaction[t].signers[i]
                       /\ transaction'[t].signers =
                              [transaction[t].signers EXCEPT ![i] = TRUE]
                /\ transaction'[t].status = transaction[t].status
                /\ transaction'[t].transaction_data = transaction[t].transaction_data
                /\ transaction'[t].creator = transaction[t].creator
                /\ transaction'[t].multisig = transaction[t].multisig
                /\ transaction'[t].executed_at = transaction[t].executed_at
                /\ \A u \in TxAddrs \ {t} : transaction'[u] = transaction[u]
                /\ multisig' = multisig
                /\ dispatched' = dispatched]_vars

\* An Active transaction of owners A and B created by A, after B's approval.
C15_Witness ==
    \E t \in TxAddrs :
        /\ transaction[t].exists
        /\ transaction[t].status = Active
        /\ transaction[t].creator = "A"
        /\ transaction[t].signers = <<TRUE, TRUE>>
        /\ multisig[transaction[t].multisig].owners = <<"A", "B">>
        /\ multisig[transaction[t].multisig].threshold = 2

\* C16: a create-transaction call signed by a key that is not in the owners
\* of the multisig is answered with OwnerNotFound; every step that creates a
\* transaction record creates it for a creator that is an owner of its
\* multisig, and every step that changes a transaction_count creates a
\* transaction of that multisig.
C16_CreateByNonOwner ==
    /\ [](\A owner \in Keys, m \in MultisigAddrs, t \in TxAddrs :
             (multisig[m].exists /\ ~Contains(multisig[m].owners, owner))
                 => CreateTransactionResult(owner, TRUE, m, t) = OwnerNotFound)
    /\ [][/\ \A t \in TxAddrs :
                (~transaction[t].exists /\ transaction'[t].exists)
                    => /\ multisig[transaction'[t].multisig].exists
                       /\ Contains(multisig[transaction'[t].multisig].owners,
                                   transaction'[t].creator)
          /\ \A m \in MultisigAddrs :
                (/\ multisig[m].exists
                 /\ multisig'[m].transaction_count # multisig[m].transaction_count)
                    => \E t \in TxAddrs :
                           /\ ~transaction[t].exists
                           /\ transaction'[t].exists
                           /\ transaction'[t].multisig = m]_vars

\* A multisig that has a transaction, a key outside its owners and a free
\* transaction address: the key's create-transaction call is answered with
\* OwnerNotFound.
C16_Witness ==
    \E owner \in Keys, m \in MultisigAddrs, t \in TxAddrs :
        /\ multisig[m].exists
        /\ multisig[m].transaction_count = U64(1)
        /\ ~Contains(multisig[m].owners, owner)
        /\ ~transaction[t].exists
        /\ CreateTransactionResult(owner, TRUE, m, t) = OwnerNotFound

\* C17: a create-transaction step stores a record whose creator is the
\* caller and whose multisig is the account the call names, and every newly
\* created transaction record is Active with executed_at = 0, has one slot
\* per owner the multisig has at that moment, and has exactly one slot set:
\* the one at the creator's position in those owners.
C17_CreateEffect ==
    [][/\ \A owner \in Keys, is_signer \in BOOLEAN, m \in MultisigAddrs, t \in TxAddrs,
             data \in TransactionDatas :
             process_create_transaction(owner, is_signer, m, t, data)
                 => /\ transaction'[t].creator = owner
                    /\ transaction'[t].multisig = m
                    /\ transaction'[t].transaction_data = data
       /\ \A t \in TxAddrs :
             (~transaction[t].exists /\ transaction'[t].exists)
             => LET tx == transaction'[t]
                    owners == multisig[tx.multisig].owners IN
                /\ tx.status = Active
                /\ tx.executed_at = 0
                /\ Len(tx.signers) = Len(owners)
                /\ \E i \in 1..Len(owners) :
                       /\ owners[i] = tx.creator
                       /\ \A j \in 1..Len(tx.signers) : tx.signers[j] <=> (j = i)]_vars

\* A transaction as owner B of owners A, B created it.
C17_Witness ==
    \E t \in TxAddrs :
        /\ transaction[t].exists
        /\ transaction[t].status = Active
        /\ transaction[t].creator = "B"
        /\ transaction[t].signers = <<FALSE, TRUE>>
        /\ transaction[t].executed_at = 0
        /\ multisig[transaction[t].multisig].owners = <<"A", "B">>

\* C18: on a free address a signed CreateMultisig call is Ok exactly when
\* 1 <= threshold <= Len(owners) and no key occurs twice in owners; it is
\* answered with InvalidNumberOfSigners when the threshold is outside that
\* range and with DuplicateOwner when a key is repeated.
C18_CreateExactlyWhenValid ==
    \A m \in MultisigAddrs, threshold \in CreateThresholds, owners \in CreateOwnerLists :
        ~multisig[m].exists =>
            CreateMultisigResult(TRUE, m, threshold, owners) =
                IF threshold < 1 \/ threshold > Len(owners) THEN InvalidNumberOfSigners
                ELSE IF Cardinality({owners[i] : i \in 1..Len(owners)}) < Len(owners)
                     THEN DuplicateOwner
                ELSE Ok

\* C19: a ChangeOwners call that cites an Executed transaction of the
\* multisig is answered with InvalidNumberOfSigners when the threshold is 0
\* or exceeds the number of new owners, and otherwise with DuplicateOwner
\* when a key is repeated in the new owners; this holds for the short owner
\* lists and for lists of 256 distinct keys and of 257 keys with a repeat.
C19_ChangeOwnersRevalidates ==
    \A m \in MultisigAddrs, t \in TxAddrs :
        (/\ multisig[m].exists
         /\ transaction[t].exists
         /\ transaction[t].multisig = m
         /\ transaction[t].status = Executed)
        => /\ \A threshold \in Thresholds, owners \in OwnerLists :
                 LET r == ChangeOwnersResult(m, t, threshold, owners) IN
                 /\ (threshold = 0 \/ threshold > Len(owners))
                        => r = InvalidNumberOfSigners
                 /\ (/\ 1 <= threshold /\ threshold <= Len(owners)
                     /\ \E i, j \in 1..Len(owners) : i # j /\ owners[i] = owners[j])
                        => r = DuplicateOwner
           /\ \A threshold \in {0, 1, U8_RANGE - 1},
                owners \in {KeyList(U8_RANGE), KeyListRepeat(U8_RANGE + 1)} :
                 LET r == ChangeOwnersResult(m, t, threshold, owners) IN
                 /\ (threshold = 0 \/ threshold > Len(owners))
                        => r = InvalidNumberOfSigners
                 /\ (Len(owners) > 1 /\ owners[Len(owners)] = owners[1])
                        => r \in {InvalidNumberOfSigners, DuplicateOwner}

\* An Executed transaction cited with a zero threshold, with a threshold
\* above the number of owners and with a repeated owner.
C19_Witness ==
    \E m \in MultisigAddrs, t \in TxAddrs :
        /\ multisig[m].exists
        /\ transaction[t].exists
        /\ transaction[t].status = Executed
        /\ ChangeOwnersResult(m, t, 0, <<"A">>) = InvalidNumberOfSigners
        /\ ChangeOwnersResult(m, t, 2, <<"B">>) = InvalidNumberOfSigners
        /\ ChangeOwnersResult(m, t, 1, <<"B", "B">>) = DuplicateOwner
        /\ multisig[m].owners = <<"A", "B">>
        /\ multisig[m].threshold = 2

\* C20: a ChangeOwners call that cites an Active or a Removed transaction of
\* the multisig is answered with TransactionNotReady whatever its arguments,
\* also when the transaction was executed before it was removed; and every
\* step that changes a multisig's owners or threshold starts from a state in
\* which that multisig has an Executed transaction.
C20_ChangeOwnersNeedsExecuted ==
    /\ [](\A m \in MultisigAddrs, t \in TxAddrs, threshold \in Thresholds,
             owners \in OwnerLists :
             (/\ multisig[m].exists
              /\ transaction[t].exists
              /\ transaction[t].multisig = m
              /\ transaction[t].status \in {Active, Removed})
             => ChangeOwnersResult(m, t, threshold, owners) = TransactionNotReady)
    /\ [][\A m \in MultisigAddrs :
             OwnersChange(m)
                 => \E t \in TxAddrs :
                        /\ transaction[t].exists
                        /\ transaction[t].multisig = m
                        /\ transaction[t].status = Executed]_vars

\* A transaction that was executed (dispatched, stamped) and then removed,
\* next to an Active one: ChangeOwners citing either is answered with
\* TransactionNotReady.
C20_Witness ==
    \E m \in MultisigAddrs, t1, t2 \in TxAddrs :
        /\ multisig[m].exists
        /\ transaction[t1].exists /\ transaction[t1].multisig = m
        /\ transaction[t1].status = Removed
        /\ transaction[t1].executed_at > 0
        /\ dispatched[t1] = 1
        /\ transaction[t2].exists /\ transaction[t2].multisig = m
        /\ transaction[t2].status = Active
        /\ ChangeOwnersResult(m, t1, 1, <<"A">>) = TransactionNotReady
        /\ ChangeOwnersResult(m, t2, 1, <<"A">>) = TransactionNotReady

\* C21: no step changes the length of the signers vector of a transaction
\* that exists, also not a ChangeOwners step that makes the owner list of its
\* multisig longer or shorter than the vector.
C21_SignersLengthFixed ==
    [][\A t \in TxAddrs :
          transaction[t].exists
              => /\ transaction'[t].exists
                 /\ Len(transaction'[t].signers) = Len(transaction[t].signers)]_vars

\* A transaction with one slot that was approved into an Executed state
\* while its multisig has two owners, next to one with two slots, both set.
C21_Witness ==
    \E t1, t2 \in TxAddrs :
        /\ transaction[t1].exists /\ transaction[t2].exists
        /\ Len(transaction[t1].signers) = 1
        /\ transaction[t1].status = Executed
        /\ Len(multisig[transaction[t1].multisig].owners) = 2
        /\ transaction[t2].signers = <<TRUE, TRUE>>
        /\ transaction[t2].status = Removed

\* C22: executed_at is 0 as long as the transaction was never dispatched, and
\* a step that changes executed_at takes the transaction from Active to
\* Executed and dispatches it.
C22_ExecutedAtOnlyByExecute ==
    /\ [](\A t \in TxAddrs :
             (transaction[t].exists /\ dispatched[t] = 0)
                 => transaction[t].executed_at = 0)
    /\ [][\A t \in TxAddrs :
             (transaction[t].exists
                  /\ transaction'[t].executed_at # transaction[t].executed_at)
             => /\ transaction[t].status = Active
                /\ transaction'[t].status = Executed
                /\ dispatched'[t] = dispatched[t] + 1]_vars

\* A transaction that was approved by the second owner and then removed
\* without execution, next to an executed one.
C22_Witness ==
    \E t1, t2 \in TxAddrs :
        /\ transaction[t1].exists /\ transaction[t2].exists
        /\ transaction[t1].status = Removed
        /\ transaction[t1].signers = <<TRUE, TRUE>>
        /\ transaction[t1].executed_at = 0
        /\ dispatched[t1] = 0
        /\ transaction[t2].executed_at > 0
        /\ dispatched[t2] = 1

\* a <= b and b = a + 1 on the numbers two u64 byte strings stand for.
U64Leq(a, b) ==
    \/ a = b
    \/ \E i \in 1..U64_BYTES :
           /\ a[i] < b[i]
           /\ \A j \in (i + 1)..U64_BYTES : a[j] = b[j]

U64IsNext(a, b) ==
    \E i \in 1..U64_BYTES :
        /\ a[i] < U8_RANGE - 1
        /\ b[i] = a[i] + 1
        /\ \A j \in 1..(i - 1) : a[j] = U8_RANGE - 1 /\ b[j] = 0
        /\ \A j \in (i + 1)..U64_BYTES : a[j] = b[j]

\* C23: a multisig's transaction_count never decreases; a step that creates
\* a transaction of the multisig raises the count by exactly 1, and a step
\* that creates none leaves it as it was.
C23_CountMonotone ==
    [][\A m \in MultisigAddrs :
          (multisig[m].exists /\ multisig'[m].exists)
          => LET before == multisig[m].transaction_count
                 after == multisig'[m].transaction_count
                 created == \E t \in TxAddrs :
                                /\ ~transaction[t].exists
                                /\ transaction'[t].exists
                                /\ transaction'[t].multisig = m
             IN /\ U64Leq(before, after)
                /\ created => U64IsNext(before, after)
                /\ ~created => after = before]_vars

\* The failure cause of a signed execute call as the error taxonomy names
\* them, for a call on existing accounts whose invocation would succeed.
ExecuteFailureCause(owner, m, t) ==
    IF ~multisig[m].exists \/ ~transaction[t].exists THEN "none"
    ELSE IF ~Contains(multisig[m].owners, owner) THEN "unauthorized caller"
    ELSE IF transaction[t].multisig # m THEN "transaction of another multisig"
    ELSE IF transaction[t].status # Active THEN "not active"
    ELSE IF ApprovalCount(transaction[t].signers) < multisig[m].threshold
         THEN "insufficient approvals"
    ELSE IF transaction[t].transaction_data.bytes_len < PUBKEY_BYTES
         THEN "malformed payload"
    ELSE "none"

\* C25: two execute calls that fail for different causes (unauthorized
\* caller, transaction of another multisig, transaction not Active,
\* insufficient approvals, malformed payload) are answered with different
\* error kinds.
C25_DistinctErrorKinds ==
    \A o1, o2 \in Keys, m1, m2 \in MultisigAddrs, t1, t2 \in TxAddrs :
        LET c1 == ExecuteFailureCause(o1, m1, t1)
            c2 == ExecuteFailureCause(o2, m2, t2) IN
        (c1 # "none" /\ c2 # "none" /\ c1 # c2)
            => ExecuteResult(o1, TRUE, m1, t1, TRUE) # ExecuteResult(o2, TRUE, m2, t2, TRUE)

\* C26: approve, execute and remove calls signed by an owner of the multisig
\* account they name, and ChangeOwners calls, are answered with
\* InvalidTransactionData when the transaction belongs to another multisig;
\* every step that changes a transaction is an approve, execute or remove
\* step requested by an owner of the transaction's own multisig, and every
\* step that changes a multisig's owners cites a transaction of that multisig.
C26_OtherMultisigRejected ==
    /\ [](\A owner \in Keys, m \in MultisigAddrs, t \in TxAddrs :
             (/\ multisig[m].exists
              /\ Contains(multisig[m].owners, owner)
              /\ transaction[t].exists
              /\ transaction[t].multisig # m)
             => /\ ApproveResult(owner, TRUE, m, t) = InvalidTransactionData
                /\ \A invoke_ok \in BOOLEAN :
                       ExecuteResult(owner, TRUE, m, t, invoke_ok) = InvalidTransactionData
                /\ RemoveResult(owner, TRUE, m, t) = InvalidTransactionData
                /\ \A threshold \in Thresholds, owners \in OwnerLists :
                       ChangeOwnersResult(m, t, threshold, owners)
                           = InvalidTransactionData)
    /\ [][/\ \A t \in TxAddrs :
                (transaction[t].exists /\ transaction'[t] # transaction[t])
                => LET own == transaction[t].multisig IN
                   /\ multisig' = multisig
                   /\ \E owner \in Keys :
                          /\ Contains(multisig[own].owners, owner)
                          /\ \/ process_approve_transaction(owner, TRUE, own, t)
                             \/ process_remove_transaction(owner, TRUE, own, t)
                             \/ \E now \in ClockValues :
                                    process_execute_transaction(owner, TRUE, own, t,
                                                                TRUE, now)
          /\ \A m \in MultisigAddrs :
                OwnersChange(m)
                    => \E t \in TxAddrs :
                           /\ transaction[t].exists
                           /\ transaction[t].multisig = m
                           /\ process_change_owners(m, t, multisig'[m].threshold,
                                                    multisig'[m].owners)]_vars

\* Two multisig accounts with different owners, an Active transaction of the
\* first and an Executed one of the second: the second's owner is refused on
\* the first's transaction, and ChangeOwners on the first citing the
\* second's Executed transaction is refused.
C26_Witness ==
    /\ multisig["M1"].exists /\ multisig["M1"].owners = <<"A">>
    /\ multisig["M2"].exists /\ multisig["M2"].owners = <<"B">>
    /\ transaction["T1"].exists /\ transaction["T1"].multisig = "M1"
    /\ transaction["T1"].status = Active
    /\ transaction["T2"].exists /\ transaction["T2"].multisig = "M2"
    /\ transaction["T2"].status = Executed
    /\ ApproveResult("B", TRUE, "M2", "T1") = InvalidTransactionData
    /\ ExecuteResult("B", TRUE, "M2", "T1", TRUE) = InvalidTransactionData
    /\ RemoveResult("B", TRUE, "M2", "T1") = InvalidTransactionData
    /\ ChangeOwnersResult("M1", "T2", 1, <<"B">>) = InvalidTransactionData

\* C27: on an Active transaction whose only approval is the creator's, two
\* different owners other than the creator are both answered with Ok, they
\* address different slots, and marking the two slots in either order gives
\* the same record, in which both slots are set.
C27_ApprovalsCommute ==
    \A t \in TxAddrs, o1, o2 \in Keys3 :
        LET tx == transaction[t]
            m == tx.multisig IN
        (/\ tx.exists
         /\ tx.status = Active
         /\ ApprovalCount(tx.signers) = 1
         /\ o1 # o2 /\ o1 # tx.creator /\ o2 # tx.creator
         /\ Contains(multisig[m].owners, o1)
         /\ Contains(multisig[m].owners, o2))
        => LET p1 == Position(multisig[m].owners, o1)
               p2 == Position(multisig[m].owners, o2) IN
           /\ ApproveResult(o1, TRUE, m, t) = Ok
           /\ ApproveResult(o2, TRUE, m, t) = Ok
           /\ p1 # p2
           /\ MarkApproved(MarkApproved(tx, p1), p2) = MarkApproved(MarkApproved(tx, p2), p1)
           /\ MarkApproved(MarkApproved(tx, p1), p2).signers[p1]
           /\ MarkApproved(MarkApproved(tx, p1), p2).signers[p2]

\* C28: a step in which an Active transaction stops being Active is an
\* execute step or a remove step on that transaction, requested by a signing
\* owner, and it changes no other transaction; approve steps and ChangeOwners
\* steps leave every status as it is.
C28_NoExpiry ==
    [][/\ \A t \in TxAddrs :
             (/\ transaction[t].exists
              /\ transaction[t].status = Active
              /\ transaction'[t].status # Active)
             => /\ \E owner \in Keys, m \in MultisigAddrs :
                       \/ process_remove_transaction(owner, TRUE, m, t)
                       \/ \E now \in ClockValues :
                              process_execute_transaction(owner, TRUE, m, t, TRUE, now)
                /\ \A u \in TxAddrs \ {t} : transaction'[u] = transaction[u]
       /\ (\/ multisig' # multisig
           \/ \E t \in TxAddrs :
                  /\ transaction[t].exists
                  /\ transaction'[t].signers # transaction[t].signers)
          => \A t \in TxAddrs :
                 transaction[t].exists => transaction'[t].status = transaction[t].status]_vars

\* A transaction that is still Active with both approvals, after the other
\* transaction was executed and the owner list of the multisig was replaced
\* by a shorter one.
C28_Witness ==
    \E t, u \in TxAddrs :
        /\ transaction[t].exists /\ transaction[u].exists
        /\ transaction[t].status = Active
        /\ transaction[t].signers = <<TRUE, TRUE>>
        /\ transaction[u].status = Executed
        /\ Len(multisig[transaction[t].multisig].owners) = 1

\* C29: decoding the data of a stored multisig account or transaction account
\* succeeds and gives back the fields of the record that was stored.
C29_RoundTrip ==
    /\ \A m \in MultisigAddrs :
           multisig[m].exists
               => LET d == DecodeMultisig(StoredMultisigBytes(multisig[m])) IN
                  /\ d.ok
                  /\ d.is_initialized = multisig[m].is_initialized
                  /\ d.threshold = multisig[m].threshold
                  /\ d.owners = multisig[m].owners
                  /\ d.transaction_count = multisig[m].transaction_count
    /\ \A t \in TxAddrs :
           transaction[t].exists
               => LET d == DecodeTransaction(StoredTransactionBytes(transaction[t])) IN
                  /\ d.ok
                  /\ d.multisig = transaction[t].multisig
                  /\ d.status = transaction[t].status
                  /\ d.transaction_data = PayloadBytes(transaction[t].transaction_data)
                  /\ d.signers = transaction[t].signers
                  /\ d.creator = transaction[t].creator
                  /\ d.executed_at = U64(transaction[t].executed_at)

\* C30: an ExecuteTransaction whose caller signs but is not among the current
\* owners of the multisig account it names is answered with OwnerNotFound,
\* whatever the transaction account holds and whether or not the dispatch
\* would succeed, so also when the transaction is Active with its quorum met;
\* unsigned it is rejected as well.  No step is an execute by such a caller,
\* so the transaction keeps its status.
C30_ExecuteByNonOwner ==
    /\ [](\A owner \in Keys, m \in MultisigAddrs, t \in TxAddrs, invoke_ok \in BOOLEAN :
              (multisig[m].exists /\ ~Contains(multisig[m].owners, owner))
                  => /\ ExecuteResult(owner, TRUE, m, t, invoke_ok) = OwnerNotFound
                     /\ ExecuteResult(owner, FALSE, m, t, invoke_ok) # Ok)
    /\ [][\A owner \in Keys, m \in MultisigAddrs, t \in TxAddrs :
              (/\ multisig[m].exists
               /\ ~Contains(multisig[m].owners, owner)
               /\ transaction[t].exists
               /\ transaction[t].status = Active)
                  => \A is_signer, invoke_ok \in BOOLEAN, now \in ClockValues :
                         ~process_execute_transaction(owner, is_signer, m, t, invoke_ok, now)]_vars

\* An Active transaction with its quorum met and a dispatchable payload: the
\* execute of an owner would succeed, the execute of a signing key outside
\* the owners is answered with OwnerNotFound.
C30_Witness ==
    \E owner, other \in Keys, m \in MultisigAddrs, t \in TxAddrs :
        /\ multisig[m].exists
        /\ Contains(multisig[m].owners, owner)
        /\ ~Contains(multisig[m].owners, other)
        /\ transaction[t].exists
        /\ transaction[t].multisig = m
        /\ transaction[t].status = Active
        /\ ~QuorumMissing(transaction[t].signers, multisig[m].threshold)
        /\ ExecuteResult(owner, TRUE, m, t, TRUE) = Ok
        /\ ExecuteResult(other, TRUE, m, t, TRUE) = OwnerNotFound

\* C31: whenever an ExecuteTransaction succeeds on a transaction, at least
\* `threshold` different keys that are owners of its multisig at that moment
\* have each created or approved that transaction themselves.
C31_QuorumOfCurrentOwners ==
    [][\A t \in TxAddrs :
           (/\ transaction[t].exists
            /\ transaction[t].status = Active
            /\ transaction'[t].status = Executed)
               => LET account == multisig[transaction[t].multisig] IN
                  Cardinality(approved[t] \cap Range(account.owners)) >= account.threshold]_vars

\* C32: in every reachable state, an ApproveTransaction signed by a current
\* owner of the multisig, on an Active transaction of that multisig which this
\* key has neither created nor approved, is accepted.
C32_FreshOwnerCanApprove ==
    \A owner \in Keys, m \in MultisigAddrs, t \in TxAddrs :
        (/\ multisig[m].exists
         /\ Contains(multisig[m].owners, owner)
         /\ transaction[t].exists
         /\ transaction[t].multisig = m
         /\ transaction[t].status = Active
         /\ owner \notin approved[t])
            => ApproveResult(owner, TRUE, m, t) = Ok

\* C33: right after a ChangeOwners citing a transaction has been accepted
\* and has changed a multisig, no ChangeOwners citing the same transaction is
\* accepted that would change the owners or the threshold once more.
C33_OneChangePerTransaction ==
    [][\A m \in MultisigAddrs, t \in TxAddrs :
           (/\ OwnersChange(m)
            /\ \E threshold \in Thresholds, owners \in OwnerLists :
                   process_change_owners(m, t, threshold, owners))
               => \A threshold \in Thresholds, owners \in OwnerLists :
                      (ChangeOwnersResult(m, t, threshold, owners) = Ok)'
                          => /\ owners = multisig'[m].owners
                             /\ threshold = multisig'[m].threshold]_vars

\* C34: CreateTransaction, ApproveTransaction, ExecuteTransaction and
\* RemoveTransaction are answered with MissingRequiredSignature when the owner
\* they name has not signed, and no step that changes the owners or the
\* threshold of a multisig is an instruction submitted without the signature
\* of an owner of that multisig.
C34_ChangesAreSigned ==
    /\ [](\A owner \in Keys, m \in MultisigAddrs, t \in TxAddrs :
              /\ CreateTransactionResult(owner, FALSE, m, t) = MissingRequiredSignature
              /\ ApproveResult(owner, FALSE, m, t) = MissingRequiredSignature
              /\ RemoveResult(owner, FALSE, m, t) = MissingRequiredSignature
              /\ \A invoke_ok \in BOOLEAN :
                     ExecuteResult(owner, FALSE, m, t, invoke_ok) = MissingRequiredSignature)
    /\ [][\A m \in MultisigAddrs :
              OwnersChange(m)
                  => ~\E tx_signers \in SUBSET Keys, t \in TxAddrs,
                         threshold \in Thresholds, owners \in OwnerLists :
                         /\ tx_signers \cap Range(multisig[m].owners) = {}
                         /\ ChangeOwnersSignedBy(tx_signers, m, t, threshold, owners)]_vars

\* C35: in every step, every approval flag of a transaction that is true
\* stays true, the vector keeps its length, and so the number of true flags
\* does not decrease, whichever instruction is processed.
C35_ApprovalsMonotone ==
    [][\A t \in TxAddrs :
           transaction[t].exists
               => /\ transaction'[t].exists
                  /\ Len(transaction'[t].signers) = Len(transaction[t].signers)
                  /\ \A i \in 1..Len(transaction[t].signers) :
                         transaction[t].signers[i] => transaction'[t].signers[i]
                  /\ ApprovalCount(transaction'[t].signers)
                         >= ApprovalCount(transaction[t].signers)]_vars

\* A transaction approved by two owners and then removed, next to an
\* executed one whose creator a ChangeOwners has since dropped from the
\* owners: both still carry their flags.
C35_Witness ==
    \E t, u \in TxAddrs :
        /\ transaction[t].exists
        /\ transaction[t].status = Removed
        /\ transaction[t].signers = <<TRUE, TRUE>>
        /\ approved[t] = {"A", "B"}
        /\ transaction[u].exists
        /\ transaction[u].status = Executed
        /\ ~Contains(multisig[transaction[u].multisig].owners, transaction[u].creator)
        /\ ApprovalCount(transaction[u].signers) >= 1

\* C36: an ExecuteTransaction signed by an owner on an Active transaction of
\* the multisig that has its quorum but a payload shorter than a key is
\* answered with InvalidTransactionData; a transaction with such a payload is
\* never dispatched and never Executed.
C36_ShortPayloadNeverExecutes ==
    \A t \in TxAddrs :
        (transaction[t].exists /\ transaction[t].transaction_data.bytes_len < PUBKEY_BYTES)
            => /\ transaction[t].status # Executed
               /\ dispatched[t] = 0
               /\ \A owner \in Keys, m \in MultisigAddrs, invoke_ok \in BOOLEAN :
                      (/\ Authorized(owner, TRUE, m, t)
                       /\ transaction[t].status = Active
                       /\ ~QuorumMissing(transaction[t].signers, multisig[m].threshold))
                          => ExecuteResult(owner, TRUE, m, t, invoke_ok) = InvalidTransactionData

\* An Active transaction with a 31-byte payload and both owners' approvals,
\* on a multisig with threshold 2, and an owner whose execute is answered
\* with InvalidTransactionData.
C36_Witness ==
    \E owner \in Keys, m \in MultisigAddrs, t \in TxAddrs :
        /\ Authorized(owner, TRUE, m, t)
        /\ transaction[t].transaction_data = ShortData
        /\ transaction[t].status = Active
        /\ multisig[m].threshold = 2
        /\ transaction[t].signers = <<TRUE, TRUE>>
        /\ ExecuteResult(owner, TRUE, m, t, TRUE) = InvalidTransactionData

\* C37: for an owner list of 256 or more keys and a threshold from 1 to 255,
\* neither a signed CreateMultisig nor a ChangeOwners citing an Executed
\* transaction of the multisig is answered with InvalidNumberOfSigners.
C37_TrueOwnerCount ==
    \A threshold \in CreateThresholds, owners \in CreateOwnerLists :
        (Len(owners) >= U8_RANGE /\ threshold >= 1 /\ threshold <= U8_RANGE - 1)
            => /\ \A m \in MultisigAddrs :
                      CreateMultisigResult(TRUE, m, threshold, owners) # InvalidNumberOfSigners
               /\ \A m \in MultisigAddrs, t \in TxAddrs :
                      (/\ multisig[m].exists
                       /\ transaction[t].exists
                       /\ transaction[t].multisig = m
                       /\ transaction[t].status = Executed)
                          => ChangeOwnersResult(m, t, threshold, owners) # InvalidNumberOfSigners

====
